---- MODULE Spec2Model ----
(***************************************************************************)
(* TaskTree::from_tasks of src/api/rest/task.rs: the construction of the   *)
(* forest of tasks from a flat list of Task records.                       *)
(*                                                                         *)
(* A Task is modelled by the two fields the construction reads, id and     *)
(* parent_id.  An Option<T> is a sequence of length 0 (None) or 1          *)
(* (Some(x)).  An Rc<RefCell<TaskTreeBuilder>> is identified with the      *)
(* position in the input of the Task it was created from, so two builders  *)
(* made from records with the same id are still two different nodes.       *)
(***************************************************************************)
EXTENDS Integers, Sequences, FiniteSets, TLC

\* Largest length of an enumerated input and largest id used in it.
MaxLen == 3
MaxId == 3

None == <<>>
Some(x) == <<x>>
IsNone(o) == o = <<>>
Unwrap(o) == o[1]

\* Task { id, parent_id, .. }: Task::new(id, _) with parent_id replaced.
Task(i, p) == [id |-> i, parent_id |-> p]

-----------------------------------------------------------------------------
(* Inputs *)

\* tests::test_tree_some_subtasks
TestSomeSubtasks ==
    <<Task(1, None), Task(2, None), Task(3, None), Task(4, Some(1))>>

\* tests::task_tree_complex_subtasks
TestComplexSubtasks ==
    <<Task(1, None), Task(2, Some(1)), Task(3, Some(2)), Task(4, Some(3))>>

\* tests::task_tree_bad_input
TestBadInput ==
    <<Task(2, Some(1)), Task(3, Some(2))>>

\* Two independent broken chains (2->1, 3->2 and 6->5, 7->6, neither 1 nor 5
\* in the batch) together with a resolvable root and its child.
TwoBrokenChains ==
    <<Task(2, Some(1)), Task(3, Some(2)), Task(6, Some(5)), Task(7, Some(6)),
      Task(4, None), Task(8, Some(4))>>

\* A record (3) given before its parent (2), which is itself a subtask, and a
\* sibling (4) given after that parent.
LateParent ==
    <<Task(3, Some(2)), Task(1, None), Task(2, Some(1)), Task(4, Some(2))>>

Bijections(S) == {f \in [S -> S] : \A x, y \in S : f[x] = f[y] => x = y}

\* Every order in which the records of batch s can be given.
Reorderings(s) ==
    {[i \in DOMAIN s |-> s[f[i]]] : f \in Bijections(DOMAIN s)}

TaskRecords ==
    [id : 1..MaxId, parent_id : {None} \cup {Some(p) : p \in 1..MaxId}]

\* Every Vec<Task> of at most MaxLen records (ids need not be distinct).
GeneralInputs == UNION {[1..n -> TaskRecords] : n \in 0..MaxLen}

Inputs ==
    GeneralInputs \cup Reorderings(TestSomeSubtasks)
        \cup Reorderings(TestComplexSubtasks)
        \cup Reorderings(TestBadInput)
        \cup Reorderings(TwoBrokenChains)
        \cup Reorderings(LateParent)

\* The longest input and a cap on the loop counter that no run reaches.
MaxBatch == IF MaxLen > Len(TwoBrokenChains) THEN MaxLen ELSE Len(TwoBrokenChains)
IterCap == (MaxBatch + 1) * (MaxBatch + 1) + 1

-----------------------------------------------------------------------------
(* State *)

VARIABLES
    input,      \* tasks: Vec<Task>, the argument
    pc,         \* "start", "loop" or "done"
    subtasks,   \* VecDeque of the builders with a parent_id
    tasks,      \* HashMap<TaskID, Rc<RefCell<TaskTreeBuilder>>>
    parent,     \* TaskTreeBuilder.parent of every builder (TRUE for Some(()))
    children,   \* TaskTreeBuilder.subtasks of every builder
    fails,      \* the miss counter
    iters,      \* number of loop iterations executed so far
    result,     \* the value returned
    rc,         \* Rc::strong_count of every builder (0: dropped)
    log,        \* the lookups made so far, oldest first
    lpc,         \* where list is: "direct" when from_tasks is called without it
    interactive, \* Params.interactive
    fetched,     \* the Vec<Task> that gw.tasks returned
    calls,       \* the calls made on the gateway so far, oldest first
    chosen,      \* the tree picked at "Select task" (None before)
    option,      \* the outcome of the TaskOptions prompt
    editOption,  \* the outcome of the EditOptions prompt
    ret          \* what list returned: "running", "Ok" or "Err"

listVars == <<lpc, interactive, fetched, calls, chosen, option, editOption, ret>>

vars ==
    <<input, pc, subtasks, tasks, parent, children, fails, iters, result,
      rc, log, lpc, interactive, fetched, calls, chosen, option, editOption,
      ret>>

Pending == [kind |-> "pending"]
Err(n) == [kind |-> "err", count |-> n]
Ok(forest) == [kind |-> "ok", forest |-> forest]
\* .expect(msg) on a failed Rc::try_unwrap
Panic(msg) == [kind |-> "panic", msg |-> msg]

\* One entry of the log: a failed lookup or a successful attach of builder n.
Missed(n) == [op |-> "miss", node |-> n]
Attached(n) == [op |-> "attach", node |-> n]

-----------------------------------------------------------------------------
(* Helpers of from_tasks *)

Max(S) == CHOOSE x \in S : \A y \in S : y <= x

\* The elements of a set of numbers, smallest first.
RECURSIVE SetToSeq(_)
SetToSeq(S) ==
    IF S = {} THEN <<>> ELSE SetToSeq(S \ {Max(S)}) \o <<Max(S)>>

\* The builders in input order.
Builders(inp) == [i \in DOMAIN inp |-> i]

IsTopLevel(inp, n) == IsNone(inp[n].parent_id)

\* partition: the second half, the builders with a parent_id, in input order.
Candidates(inp) ==
    SelectSeq(Builders(inp), LAMBDA n : ~IsTopLevel(inp, n))

\* The HashMap collected from top_level_tasks: of two records with the same
\* id the later one replaces the earlier one.
SeedTableEveryRecord(inp) ==
    [k \in {inp[n].id : n \in DOMAIN inp} |->
        Max({n \in DOMAIN inp : inp[n].id = k})]
SeedTable(inp) ==
    LET top == {n \in DOMAIN inp : IsTopLevel(inp, n)}
        keys == {inp[n].id : n \in top}
    IN  [k \in keys |-> Max({n \in top : inp[n].id = k})]

\* while !subtasks.is_empty() && fails <= subtasks.len()
LoopCondIgnoringFails(q, f) == q # <<>>
LoopCondOneMore(q, f) == q # <<>> /\ f <= Len(q) + 1
LoopCond(q, f) == q # <<>> /\ f <= Len(q)

\* subtasks.pop_front(): the queue that is left
PopFrontKeeping(q) == q
PopFront(q) == Tail(q)

\* fails += 1
CountMissAfterReset(f) == 1
CountMiss(f) == f + 1

\* fails = 0
ResetFailsNot(f) == f
ResetFails(f) == 0

\* subtask.borrow().task.parent_id.unwrap()
ParentKey(inp, n) == Unwrap(inp[n].parent_id)

\* if let Entry::Vacant(_) = parent
Vacant(table, key) == key \notin DOMAIN table

\* subtasks.push_back(subtask)
RequeueFront(q, n) == <<n>> \o q
Requeue(q, n) == Append(q, n)

\* entry.borrow_mut().subtasks.push(subtask.clone())
PushChildReplacing(ch, p, n) == [ch EXCEPT ![p] = <<n>>]
PushChildOntoItself(ch, p, n) == [ch EXCEPT ![n] = Append(@, n)]
PushChildInFront(ch, p, n) == [ch EXCEPT ![p] = <<n>> \o @]
PushChild(ch, p, n) == [ch EXCEPT ![p] = Append(@, n)]

\* tasks.insert(id, subtask.clone())
InsertNothing(table, key, n) == table
Insert(table, key, n) ==
    [k \in DOMAIN table \cup {key} |-> IF k = key THEN n ELSE table[k]]

\* if !subtasks.is_empty() { bail!(..) }
MissingParentsOffByOne(q) == Len(q) > 1
MissingParents(q) == q # <<>>

\* .filter(|(_, c)| c.borrow().parent.is_none())
IsRootUnfiltered(par, n) == TRUE
IsRootNegated(par, n) == par[n]
IsRoot(par, n) == ~par[n]

\* Dropping the Rc clones listed in todo: a count that falls to 0 drops the
\* builder and with it the clones in its subtasks.
RECURSIVE Release(_, _, _)
Release(counts, ch, todo) ==
    IF todo = <<>> THEN counts
    ELSE LET n == Head(todo)
         IN  IF counts[n] = 0 THEN Release(counts, ch, Tail(todo))
             ELSE IF counts[n] = 1
             THEN Release([counts EXCEPT ![n] = 0], ch, ch[n] \o Tail(todo))
             ELSE Release([counts EXCEPT ![n] = @ - 1], ch, Tail(todo))

\* The entry that tasks.insert(key, _) replaces and drops, if any.
Replaced(table, key) == IF key \in DOMAIN table THEN <<table[key]>> ELSE <<>>

\* The values of the table, one per entry.
Entries(table) == {table[k] : k \in DOMAIN table}

\* The builders that finalize consumes starting from the builders in S.
RECURSIVE Consumed(_, _)
Consumed(ch, S) ==
    LET T == S \cup UNION {{ch[n][i] : i \in DOMAIN ch[n]} : n \in S}
    IN  IF T = S THEN S ELSE Consumed(ch, T)

\* The entries that the filter has rejected, and so dropped, in this order.
FilteredOut(order, par) == SelectSeq(order, LAMBDA n : ~IsRoot(par, n))

\* .filter(..).collect::<Vec<_>>(): the entries dropped before the entry at
\* position i of the table's order is unwrapped. The collect runs the filter
\* over the whole table first.
DroppedBeforeLazily(order, par, i) == FilteredOut(SubSeq(order, 1, i - 1), par)
DroppedBefore(order, par, i) == FilteredOut(order, par)

\* The orders in which the HashMap can yield the builders of set S.
Orders(S) ==
    {o \in [1..Cardinality(S) -> S] : \A i, j \in DOMAIN o : o[i] = o[j] => i = j}

\* TaskTreeBuilder::finalize
finalizeWithoutSubtasks(ch, inp, n) == [task |-> inp[n], subtasks |-> <<>>]
RECURSIVE finalize(_, _, _)
finalize(ch, inp, n) ==
    [task |-> inp[n],
     subtasks |-> [i \in 1..Len(ch[n]) |-> finalize(ch, inp, ch[n][i])]]

-----------------------------------------------------------------------------
(* from_tasks *)

Init ==
    /\ input \in Inputs
    /\ pc = "start"
    /\ subtasks = <<>>
    /\ tasks = <<>>
    /\ parent = <<>>
    /\ children = <<>>
    /\ fails = 0
    /\ iters = 0
    /\ result = Pending
    /\ rc = <<>>
    /\ log = <<>>
    /\ lpc = "direct"
    /\ interactive = FALSE
    /\ fetched = <<>>
    /\ calls = <<>>
    /\ chosen = None
    /\ option = "unset"
    /\ editOption = "unset"
    /\ ret = "running"

\* Lines 155-171: the builders, the partition, the table and the counter.
Partition ==
    /\ pc = "start"
    /\ parent' = [n \in DOMAIN input |-> FALSE]
    /\ children' = [n \in DOMAIN input |-> <<>>]
    /\ subtasks' = Candidates(input)
    /\ tasks' = SeedTable(input)
    /\ fails' = 0
    /\ rc' = [n \in DOMAIN input |->
                IF IsTopLevel(input, n)
                THEN (IF SeedTable(input)[input[n].id] = n THEN 1 ELSE 0)
                ELSE 1]
    /\ pc' = "loop"
    /\ UNCHANGED <<input, iters, result, log>>
    /\ UNCHANGED listVars

\* Lines 172-179: one iteration whose lookup finds no entry.
Miss ==
    /\ pc = "loop"
    /\ LoopCond(subtasks, fails)
    /\ iters < IterCap
    /\ LET subtask == Head(subtasks)
       IN  /\ Vacant(tasks, ParentKey(input, subtask))
           /\ fails' = CountMiss(fails)
           /\ subtasks' = Requeue(PopFront(subtasks), subtask)
           /\ log' = Append(log, Missed(subtask))
    /\ iters' = iters + 1
    /\ UNCHANGED <<input, pc, tasks, parent, children, result, rc>>
    /\ UNCHANGED listVars

\* Lines 172-185: one iteration whose lookup finds the parent.
Attach ==
    /\ pc = "loop"
    /\ LoopCond(subtasks, fails)
    /\ iters < IterCap
    /\ LET subtask == Head(subtasks)
           key == ParentKey(input, subtask)
       IN  /\ ~Vacant(tasks, key)
           /\ fails' = ResetFails(fails)
           /\ parent' = [parent EXCEPT ![subtask] = TRUE]
           /\ children' = PushChild(children, tasks[key], subtask)
           /\ tasks' = Insert(tasks, input[subtask].id, subtask)
           /\ subtasks' = PopFront(subtasks)
           /\ rc' = Release([rc EXCEPT ![subtask] = @ + 1], children',
                            Replaced(tasks, input[subtask].id))
           /\ log' = Append(log, Attached(subtask))
    /\ iters' = iters + 1
    /\ UNCHANGED <<input, pc, result>>
    /\ UNCHANGED listVars

\* Lines 188-190: bail!("missing parent nodes in {} subtasks", ..)
Bail ==
    /\ pc = "loop"
    /\ ~LoopCond(subtasks, fails)
    /\ MissingParents(subtasks)
    /\ result' = Err(Len(subtasks))
    /\ rc' = Release(rc, children, subtasks \o SetToSeq(Entries(tasks)))
    /\ pc' = "done"
    /\ UNCHANGED <<input, subtasks, tasks, parent, children, fails, iters, log>>
    /\ UNCHANGED listVars

\* Lines 191-202: into_iter, filter, collect, then try_unwrap and finalize of
\* every builder kept, for the table yielding its entries in this order.
\* The value returned, and the strong counts left behind.
Unwrapped(order) ==
    LET kept == {i \in DOMAIN order : IsRoot(parent, order[i])}
        counts(i) == Release(rc, children, DroppedBefore(order, parent, i))
        below(i) == Consumed(children, {order[i]}) \ {order[i]}
        shared(i, c) == \E n \in below(i) : c[n] # 1
        bad == {i \in kept : LET c == counts(i)
                             IN  c[order[i]] # 1 \/ shared(i, c)}
        roots == SelectSeq(order, LAMBDA n : IsRoot(parent, n))
    IN  IF bad = {}
        THEN Ok([i \in DOMAIN roots |-> finalize(children, input, roots[i])])
        ELSE LET i == CHOOSE j \in bad : \A k \in bad : j <= k
             IN  IF counts(i)[order[i]] # 1
                 THEN Panic("only single reference")
                 ELSE Panic("should consume single Rc")

LeftBehind(order) ==
    LET counts == Release(rc, children, FilteredOut(order, parent))
        used == Consumed(children,
                         {order[i] : i \in {j \in DOMAIN order :
                                                IsRoot(parent, order[j])}})
    IN  [n \in DOMAIN counts |-> IF n \in used THEN 0 ELSE counts[n]]

Collect ==
    /\ pc = "loop"
    /\ ~LoopCond(subtasks, fails)
    /\ ~MissingParents(subtasks)
    /\ \E order \in Orders(Entries(tasks)) :
          /\ result' = Unwrapped(order)
          /\ rc' = LeftBehind(order)
    /\ pc' = "done"
    /\ UNCHANGED <<input, subtasks, tasks, parent, children, fails, iters, log>>
    /\ UNCHANGED listVars

Next == Partition \/ Miss \/ Attach \/ Bail \/ Collect

Spec == Init /\ [][Next]_vars

\* from_tasks is straight-line sequential code: a step that can be taken is
\* taken. Only the steps up to the exit of the loop are assumed to be taken.
FairSpec == Spec /\ WF_vars(Partition \/ Miss \/ Attach)

-----------------------------------------------------------------------------
(* list (src/list.rs) *)

\* The longest batch the gateway returns to list.
MaxFetched == 2

\* What gw.tasks can return: any batch of records, the tree need not be clean.
FetchedBatches == UNION {[1..n -> TaskRecords] : n \in 0..MaxFetched}

\* The calls list makes on the gateway and on the edit module.
TasksCall == [op |-> "tasks"]
CloseCall(id) == [op |-> "close", id |-> id]
EditCall(id, field) == [op |-> "edit", id |-> id, field |-> field]

\* enum EditOptions, without Quit
EditFields == {"Name", "Description", "Due", "Priority"}

\* task.task.id, the id handed to close::Params and edit::Params::new
SelectedIdOfFirstFetched(task) == fetched[1].id
SelectedId(task) == task.task.id

ListInit ==
    /\ input = <<>>
    /\ pc = "uncalled"
    /\ subtasks = <<>>
    /\ tasks = <<>>
    /\ parent = <<>>
    /\ children = <<>>
    /\ fails = 0
    /\ iters = 0
    /\ result = Pending
    /\ rc = <<>>
    /\ log = <<>>
    /\ lpc = "tasks"
    /\ interactive \in BOOLEAN
    /\ fetched = <<>>
    /\ calls = <<>>
    /\ chosen = None
    /\ option = "unset"
    /\ editOption = "unset"
    /\ ret = "running"

fromTasksVars ==
    <<input, pc, subtasks, tasks, parent, children, fails, iters, result,
      rc, log>>

\* Line 21: gw.tasks(Some(&params.filter)).await answers with a batch.
Fetch ==
    /\ lpc = "tasks"
    /\ calls' = Append(calls, TasksCall)
    /\ \E batch \in FetchedBatches : fetched' = batch
    /\ lpc' = "from_tasks"
    /\ UNCHANGED <<interactive, chosen, option, editOption, ret>>
    /\ UNCHANGED fromTasksVars

\* Line 21: gw.tasks fails and ? returns the error.
FetchFails ==
    /\ lpc = "tasks"
    /\ calls' = Append(calls, TasksCall)
    /\ ret' = "Err"
    /\ lpc' = "returned"
    /\ UNCHANGED <<interactive, fetched, chosen, option, editOption>>
    /\ UNCHANGED fromTasksVars

\* Line 22: TaskTree::from_tasks(tasks) is entered with the fetched batch.
CallFromTasks ==
    /\ lpc = "from_tasks"
    /\ pc = "uncalled"
    /\ input' = fetched
    /\ pc' = "start"
    /\ UNCHANGED <<subtasks, tasks, parent, children, fails, iters, result,
                   rc, log>>
    /\ UNCHANGED listVars

\* Line 22: from_tasks did not return a forest: .wrap_err(..)? returns the
\* error (a panic ends the run).
FromTasksFails ==
    /\ lpc = "from_tasks"
    /\ pc = "done"
    /\ result.kind # "ok"
    /\ ret' = IF result.kind = "err" THEN "Err" ELSE "panic"
    /\ lpc' = "returned"
    /\ UNCHANGED <<interactive, fetched, calls, chosen, option, editOption>>
    /\ UNCHANGED fromTasksVars

\* Lines 29-31: not interactive, list_tasks prints the roots.
ListTasks ==
    /\ lpc = "from_tasks"
    /\ pc = "done"
    /\ result.kind = "ok"
    /\ ~interactive
    /\ ret' = "Ok"
    /\ lpc' = "returned"
    /\ UNCHANGED <<interactive, fetched, calls, chosen, option, editOption>>
    /\ UNCHANGED fromTasksVars

\* Lines 25-26, 35-43: get_interactive_tasks answers Some(&tree[index]).
SelectTask ==
    /\ lpc = "from_tasks"
    /\ pc = "done"
    /\ result.kind = "ok"
    /\ interactive
    /\ \E index \in DOMAIN result.forest : chosen' = Some(result.forest[index])
    /\ lpc' = "select_task_option"
    /\ UNCHANGED <<interactive, fetched, calls, option, editOption, ret>>
    /\ UNCHANGED fromTasksVars

\* Lines 25-27, 35-43: the prompt is left without a selection (Ok), or it
\* fails and ? returns the error.
NoTaskSelected ==
    /\ lpc = "from_tasks"
    /\ pc = "done"
    /\ result.kind = "ok"
    /\ interactive
    /\ \E r \in {"Ok", "Err"} : ret' = r
    /\ lpc' = "returned"
    /\ UNCHANGED <<interactive, fetched, calls, chosen, option, editOption>>
    /\ UNCHANGED fromTasksVars

\* Lines 60-65: make_selection(TaskOptions::VARIANTS) gives no index (Ok) or
\* fails (Err).
NoOptionSelected ==
    /\ lpc = "select_task_option"
    /\ \E r \in {"Ok", "Err"} :
          /\ ret' = r
          /\ option' = IF r = "Ok" THEN "none" ELSE "error"
    /\ lpc' = "returned"
    /\ UNCHANGED <<interactive, fetched, calls, chosen, editOption>>
    /\ UNCHANGED fromTasksVars

\* Line 68 and close.rs 13-17: TaskOptions::Close, close::close calls
\* gw.close(params.id), which succeeds or fails.
Close ==
    /\ lpc = "select_task_option"
    /\ option' = "Close"
    /\ calls' = Append(calls, CloseCall(SelectedId(Unwrap(chosen))))
    /\ \E r \in {"Ok", "Err"} : ret' = r
    /\ lpc' = "returned"
    /\ UNCHANGED <<interactive, fetched, chosen, editOption>>
    /\ UNCHANGED fromTasksVars

\* Line 69: TaskOptions::Edit, edit_task is entered.
Edit ==
    /\ lpc = "select_task_option"
    /\ option' = "Edit"
    /\ lpc' = "edit_task"
    /\ UNCHANGED <<interactive, fetched, calls, chosen, editOption, ret>>
    /\ UNCHANGED fromTasksVars

\* Line 70: TaskOptions::Quit
Quit ==
    /\ lpc = "select_task_option"
    /\ option' = "Quit"
    /\ ret' = "Ok"
    /\ lpc' = "returned"
    /\ UNCHANGED <<interactive, fetched, calls, chosen, editOption>>
    /\ UNCHANGED fromTasksVars

\* Lines 86-92: make_selection(EditOptions::VARIANTS) gives no index (Ok) or
\* fails (Err).
NoEditOptionSelected ==
    /\ lpc = "edit_task"
    /\ \E r \in {"Ok", "Err"} :
          /\ ret' = r
          /\ editOption' = IF r = "Ok" THEN "none" ELSE "error"
    /\ lpc' = "returned"
    /\ UNCHANGED <<interactive, fetched, calls, chosen, option>>
    /\ UNCHANGED fromTasksVars

\* Line 94: EditOptions::Quit
EditQuit ==
    /\ lpc = "edit_task"
    /\ editOption' = "Quit"
    /\ ret' = "Ok"
    /\ lpc' = "returned"
    /\ UNCHANGED <<interactive, fetched, calls, chosen, option>>
    /\ UNCHANGED fromTasksVars

\* Lines 95-127: a field is picked, its dialog answers, and edit::edit is
\* called with the params of the chosen task; the call succeeds or fails.
EditField ==
    /\ lpc = "edit_task"
    /\ \E field \in EditFields :
          /\ editOption' = field
          /\ calls' = Append(calls, EditCall(SelectedId(Unwrap(chosen)), field))
    /\ \E r \in {"Ok", "Err"} : ret' = r
    /\ lpc' = "returned"
    /\ UNCHANGED <<interactive, fetched, chosen, option>>
    /\ UNCHANGED fromTasksVars

\* Lines 96-104, 108-111: a field is picked and its dialog (or the conversion
\* of the priority) fails: ? returns the error before edit::edit is called.
EditDialogFails ==
    /\ lpc = "edit_task"
    /\ \E field \in EditFields : editOption' = field
    /\ ret' = "Err"
    /\ lpc' = "returned"
    /\ UNCHANGED <<interactive, fetched, calls, chosen, option>>
    /\ UNCHANGED fromTasksVars

ListNext ==
    \/ Fetch \/ FetchFails \/ CallFromTasks
    \/ Partition \/ Miss \/ Attach \/ Bail \/ Collect
    \/ FromTasksFails \/ ListTasks \/ SelectTask \/ NoTaskSelected
    \/ NoOptionSelected \/ Close \/ Edit \/ Quit
    \/ NoEditOptionSelected \/ EditQuit \/ EditField \/ EditDialogFails

ListSpec == ListInit /\ [][ListNext]_vars

-----------------------------------------------------------------------------
(* Notions the properties are stated in *)

DistinctIds(inp) == \A i, j \in DOMAIN inp : inp[i].id = inp[j].id => i = j

\* The ids a parent chain can end at: the ids of the parentless records and,
\* repeatedly, of the records whose parent_id is one of these ids.
RECURSIVE ReachedFrom(_, _)
ReachedFrom(inp, S) ==
    LET T == S \cup {inp[i].id : i \in {j \in DOMAIN inp :
                        /\ ~IsNone(inp[j].parent_id)
                        /\ Unwrap(inp[j].parent_id) \in S}}
    IN  IF T = S THEN S ELSE ReachedFrom(inp, T)

ResolvedIds(inp) ==
    ReachedFrom(inp, {inp[i].id : i \in {j \in DOMAIN inp : IsNone(inp[j].parent_id)}})

\* The records with a parent_id whose parent chain does not end at a
\* parentless record (absent parent, or a cycle of parent pointers).
Unresolved(inp) ==
    {i \in DOMAIN inp : /\ ~IsNone(inp[i].parent_id)
                        /\ Unwrap(inp[i].parent_id) \notin ResolvedIds(inp)}

Range(s) == {s[i] : i \in DOMAIN s}

\* The ids of the nodes of a tree and of a forest, one entry per node.
RECURSIVE TreeIds(_), ForestIds(_)
TreeIds(t) == <<t.task.id>> \o ForestIds(t.subtasks)
ForestIds(f) == IF f = <<>> THEN <<>> ELSE TreeIds(Head(f)) \o ForestIds(Tail(f))

\* The nodes of a forest.
RECURSIVE Nodes(_)
Nodes(f) == Range(f) \cup UNION {Nodes(t.subtasks) : t \in Range(f)}

Occurrences(s, x) == Cardinality({k \in DOMAIN s : s[k] = x})

\* inp holds the records of batch s, in some order.
IsReordering(inp, s) ==
    /\ Len(inp) = Len(s)
    /\ \A x \in Range(s) \cup Range(inp) : Occurrences(inp, x) = Occurrences(s, x)

Returned == pc = "done"
ReturnedOk == pc = "done" /\ result.kind = "ok"
ReturnedErr == pc = "done" /\ result.kind = "err"

Reverse(s) == [i \in DOMAIN s |-> s[Len(s) + 1 - i]]

-----------------------------------------------------------------------------
(* Properties *)

\* C1: when from_tasks returns Ok on records with pairwise distinct ids, every
\* input id occurs in the returned forest exactly once, and the forest holds
\* no node whose id is not in the input.
C1_EveryIdExactlyOnce ==
    (ReturnedOk /\ DistinctIds(input)) =>
        LET ids == ForestIds(result.forest)
        IN  /\ \A i \in DOMAIN input : Occurrences(ids, input[i].id) = 1
            /\ \A k \in DOMAIN ids : \E i \in DOMAIN input : input[i].id = ids[k]

\* Three records with distinct ids, the first of them a subtask, are returned
\* as one root with a child and a grandchild.
C1_Witness ==
    /\ ReturnedOk
    /\ DistinctIds(input)
    /\ Len(input) = 3
    /\ ~IsNone(input[1].parent_id)
    /\ \E t \in Range(result.forest) :
          /\ Len(t.subtasks) = 1
          /\ Len(t.subtasks[1].subtasks) = 1

\* C2: when some record's parent chain does not end at a parentless record,
\* from_tasks returns Err for the whole batch: the value returned is the
\* error with its count and holds no forest.
C2_UnresolvedFailsWholeBatch ==
    (Returned /\ Unresolved(input) # {}) =>
        /\ result.kind = "err"
        /\ DOMAIN result = {"kind", "count"}

\* Err is returned for a batch with a self-parented record although another
\* record of the batch had been attached to its parent.
C2_Witness ==
    /\ ReturnedErr
    /\ \E i \in DOMAIN input : input[i].parent_id = Some(input[i].id)
    /\ \E n \in DOMAIN parent : parent[n]

\* C3: records with distinct ids whose parent chains all end at a parentless
\* record give Ok in every input order.
C3_ResolvableSucceeds ==
    (Returned /\ DistinctIds(input) /\ Unresolved(input) = {}) =>
        result.kind = "ok"

\* The chain 1 <- 2 <- 3 <- 4 given in reverse, every child before its parent.
C3_Witness ==
    /\ ReturnedOk
    /\ input = Reverse(TestComplexSubtasks)

ChainTree ==
    [task |-> Task(1, None), subtasks |-> <<
        [task |-> Task(2, Some(1)), subtasks |-> <<
            [task |-> Task(3, Some(2)), subtasks |-> <<
                [task |-> Task(4, Some(3)), subtasks |-> <<>>]>>]>>]>>]

\* C4: every order of the records 1, 2 (parent 1), 3 (parent 2), 4 (parent 3)
\* gives exactly one root, 1, whose only child is 2, whose only child is 3,
\* whose only child is 4, which has no children.
C4_ChainAnyOrder ==
    (Returned /\ IsReordering(input, TestComplexSubtasks)) =>
        result = Ok(<<ChainTree>>)

\* The chain given in the order 3, 1, 4, 2.
C4_Witness ==
    /\ ReturnedOk
    /\ input = <<TestComplexSubtasks[3], TestComplexSubtasks[1],
                 TestComplexSubtasks[4], TestComplexSubtasks[2]>>
    /\ result.forest = <<ChainTree>>

\* C5: in every returned forest the parent_id of every child of a node x is
\* Some(x.task.id); with distinct input ids the children of a node are exactly
\* the input records whose parent_id names it; a record with parent 1 added to
\* three parentless records is the single child of root 1, and the other two
\* roots have no children.
C5_ChildrenNameTheirParent ==
    ReturnedOk =>
        /\ \A x \in Nodes(result.forest) : \A k \in DOMAIN x.subtasks :
              x.subtasks[k].task.parent_id = Some(x.task.id)
        /\ DistinctIds(input) =>
              \A x \in Nodes(result.forest) :
                 /\ {c.task : c \in Range(x.subtasks)} =
                       {input[i] : i \in {j \in DOMAIN input :
                            input[j].parent_id = Some(x.task.id)}}
                 /\ \A c \in Range(x.subtasks) :
                       Occurrences([k \in DOMAIN x.subtasks |-> x.subtasks[k].task],
                                   c.task) = 1
        /\ IsReordering(input, TestSomeSubtasks) =>
              /\ Len(result.forest) = 3
              /\ \A t \in Range(result.forest) :
                    IF t.task.id = 1
                    THEN t.subtasks = <<[task |-> Task(4, Some(1)), subtasks |-> <<>>]>>
                    ELSE t.subtasks = <<>>

\* A node with two children is returned.
C5_Witness ==
    /\ ReturnedOk
    /\ DistinctIds(input)
    /\ \E x \in Nodes(result.forest) : Len(x.subtasks) = 2

\* C6: when from_tasks returns Ok on records with distinct ids, the roots are
\* exactly the parentless input records, each once, and no parentless record
\* is nested under another node; N parentless records give N roots without
\* children.
C6_RootsAreTheParentless ==
    (ReturnedOk /\ DistinctIds(input)) =>
        LET top == {i \in DOMAIN input : IsNone(input[i].parent_id)}
        IN  /\ {t.task : t \in Range(result.forest)} = {input[i] : i \in top}
            /\ Len(result.forest) = Cardinality(top)
            /\ \A x \in Nodes(result.forest) : \A c \in Range(x.subtasks) :
                  ~IsNone(c.task.parent_id)
            /\ top = DOMAIN input =>
                  \A t \in Range(result.forest) : t.subtasks = <<>>

\* tests::test_tree_no_subtasks: three parentless records, three roots.
C6_Witness ==
    /\ ReturnedOk
    /\ input = <<Task(1, None), Task(2, None), Task(3, None)>>
    /\ Len(result.forest) = 3

\* The loop test holds: the next step pops a candidate.
InLoop == pc = "loop" /\ LoopCond(subtasks, fails)

\* The loop test has failed, or from_tasks has returned.
LoopExited == (pc = "loop" /\ ~LoopCond(subtasks, fails)) \/ pc = "done"

\* The cap on the loop counter stops no iteration of from_tasks.
IterCapNotReached == InLoop => iters < IterCap

\* C7: the candidate loop terminates on every input: every run of from_tasks
\* reaches the state in which the loop has exited. (Once exited the loop is
\* not entered again, so this is the same as exit being reached from every
\* state in which the loop runs.)
C7_LoopTerminates == <>LoopExited

\* The loop has exited on a batch with a self-parented record and a cycle of
\* two records.
C7_Witness ==
    /\ pc = "loop"
    /\ ~LoopCond(subtasks, fails)
    /\ iters > 0
    /\ \E i \in DOMAIN input : input[i].parent_id = Some(input[i].id)
    /\ \E i, j \in DOMAIN input :
          /\ i # j
          /\ input[i].id # input[j].id
          /\ input[i].parent_id = Some(input[j].id)
          /\ input[j].parent_id = Some(input[i].id)

\* C8: on N records with distinct ids that are fully resolvable, in any
\* order, the number of loop iterations never exceeds (N+1)^2.
C8_QuadraticIterations ==
    (DistinctIds(input) /\ Unresolved(input) = {}) =>
        iters <= (Len(input) + 1) * (Len(input) + 1)

\* Four resolvable records took six iterations, three of them misses.
C8_Witness ==
    /\ Returned
    /\ DistinctIds(input)
    /\ Unresolved(input) = {}
    /\ Len(input) = 4
    /\ iters = 6

\* C9 as claimed: no candidate is popped while the miss counter equals the
\* number of candidates in the queue.
C9_NoPopAtQueueLength ==
    [][(Miss \/ Attach) => fails # Len(subtasks)]_vars

\* C9 as amended: the loop stops as soon as the miss counter exceeds the
\* queue length. No candidate is popped while fails > subtasks.len(), and
\* fails is never more than subtasks.len() + 1 once the loop has begun.
C9_StopsWhenMissesExceedLength ==
    /\ [][(Miss \/ Attach) => fails <= Len(subtasks)]_vars
    /\ [](pc # "start" => fails <= Len(subtasks) + 1)

\* The loop has stopped on a queue of two candidates after three misses.
C9_Witness ==
    /\ pc = "loop"
    /\ ~LoopCond(subtasks, fails)
    /\ Len(subtasks) = 2
    /\ fails = 3

\* C10: when from_tasks fails, the count of its error is the number of input
\* records whose parent chain does not end at a parentless record; at loop
\* exit the queue holds exactly these records, each once, and none of them
\* finds its parent in the table. Two broken chains of two records in one
\* batch give the count 4.
C10_ErrorCountsUnresolved ==
    /\ LoopExited =>
          /\ Range(subtasks) = Unresolved(input)
          /\ Len(subtasks) = Cardinality(Unresolved(input))
          /\ \A k \in DOMAIN subtasks :
                Vacant(tasks, ParentKey(input, subtasks[k]))
    /\ ReturnedErr =>
          /\ result.count = Cardinality(Unresolved(input))
          /\ IsReordering(input, TwoBrokenChains) =>
                /\ result.count = 4
                /\ {input[n].id : n \in Range(subtasks)} = {2, 3, 6, 7}

\* The batch with the two broken chains has failed after the resolvable
\* record 8 was attached under 4.
C10_Witness ==
    /\ ReturnedErr
    /\ IsReordering(input, TwoBrokenChains)
    /\ input[1].id = 8
    /\ \E n \in DOMAIN children : children[n] # <<>>

\* The loop test has failed on an empty queue: the table is about to be
\* turned into the forest.
Collecting == pc = "loop" /\ ~LoopCond(subtasks, fails) /\ ~MissingParents(subtasks)

\* While the loop runs, the strong count of a builder is the number of its
\* owners: the queue, the entries of the table and the subtasks of the
\* builders that have not been dropped.
OwnersCounted ==
    pc = "loop" =>
        \A n \in DOMAIN rc :
            rc[n] = Occurrences(subtasks, n)
                    + Cardinality({k \in DOMAIN tasks : tasks[k] = n})
                    + Cardinality({p \in DOMAIN children :
                                      rc[p] > 0 /\ n \in Range(children[p])})

\* C11: no assertion of from_tasks fails, on any input: pop_front is called
\* on a non-empty queue only, parent_id.unwrap() is applied to records with a
\* parent_id only, and, whatever the order of the table, every builder has
\* exactly one owner when it is unwrapped, in from_tasks and in finalize. So
\* from_tasks returns Ok or the error of missing parents and nothing else, and
\* once it has returned no builder is left.
C11_NoAssertionFails ==
    /\ result.kind \in {"pending", "ok", "err"}
    /\ (pc = "loop" /\ LoopCond(subtasks, fails)) => Len(subtasks) > 0
    /\ pc # "start" => \A n \in Range(subtasks) : ~IsNone(input[n].parent_id)
    /\ Collecting =>
          \A order \in Orders(Entries(tasks)) :
             LET counts == Release(rc, children, FilteredOut(order, parent))
                 roots == {n \in Entries(tasks) : IsRoot(parent, n)}
             IN  /\ \A n \in Consumed(children, roots) : counts[n] = 1
                 /\ Unwrapped(order).kind = "ok"
    /\ Returned => \A n \in DOMAIN rc : rc[n] = 0

\* Ok is returned with a child under a root for three records of which two
\* have the same id.
C11_Witness ==
    /\ ReturnedOk
    /\ Len(input) = 3
    /\ ~DistinctIds(input)
    /\ \E t \in Range(result.forest) : t.subtasks # <<>>
    /\ \A n \in DOMAIN rc : rc[n] = 0

\* The builders made from the parentless records.
TopLevel == {n \in DOMAIN input : IsTopLevel(input, n)}

\* Builder p was in the table before the k-th lookup: it was seeded, or it
\* was attached by an earlier lookup.
InTableBefore(p, k) ==
    \/ p \in Entries(SeedTable(input))
    \/ \E j \in 1..(k - 1) : log[j] = Attached(p)

\* C12: at every step of the construction the attached edges hold no cycle.
\* Every builder in the table is a parentless record or was attached, once,
\* as a child of another builder that was in the table before it; every
\* builder in the table is reached from a parentless record along attached
\* edges; no builder is below itself.
C12_NoCycleDuringConstruction ==
    pc # "start" =>
        /\ \A n \in Entries(tasks) :
              /\ \/ IsTopLevel(input, n)
                 \/ \E k \in DOMAIN log :
                       /\ log[k] = Attached(n)
                       /\ \E p \in DOMAIN children \ {n} :
                             /\ n \in Range(children[p])
                             /\ InTableBefore(p, k)
              /\ n \in Consumed(children, TopLevel)
        /\ \A n \in DOMAIN children :
              /\ n \notin Consumed(children, Range(children[n]))
              /\ Cardinality({p \in DOMAIN children : n \in Range(children[p])})
                    <= 1
              /\ \A p \in DOMAIN children : Occurrences(children[p], n) <= 1

\* The loop is still running and the table holds a builder attached under a
\* builder that was itself attached.
C12_Witness ==
    /\ pc = "loop"
    /\ subtasks # <<>>
    /\ \E n \in Entries(tasks) : \E p \in Entries(tasks) :
          /\ parent[n]
          /\ parent[p]
          /\ n \in Range(children[p])

\* The (parent id, child id) pairs of a forest and the ids of its roots.
Edges(f) ==
    UNION {{<<x.task.id, c.task.id>> : c \in Range(x.subtasks)} : x \in Nodes(f)}

RootIds(f) == {t.task.id : t \in Range(f)}

\* Two values returned by from_tasks that differ at most in the order of the
\* roots: the same error, or forests of the same trees with the same edges
\* and the same root ids.
SameShape(r1, r2) ==
    IF r1.kind = "ok" /\ r2.kind = "ok"
    THEN /\ IsReordering(r1.forest, r2.forest)
         /\ Edges(r1.forest) = Edges(r2.forest)
         /\ RootIds(r1.forest) = RootIds(r2.forest)
    ELSE r1 = r2

\* C13: two runs of from_tasks on the same input give the same outcome and,
\* when Ok, the same edges and the same root ids; only the order of the roots
\* may differ. The steps up to the collection are functions of the input and
\* the collection's only choice is the order in which the table yields its
\* entries, so two runs are two such orders: every order gives the shape that
\* the entries in ascending order give. An error carries the number of
\* unresolved records of the input; with distinct ids the edges and the root
\* ids of a forest are those the parent_ids of the input state.
C13_SameShapeWhateverTableOrder ==
    /\ Collecting =>
          \A order \in Orders(Entries(tasks)) :
             SameShape(Unwrapped(order), Unwrapped(SetToSeq(Entries(tasks))))
    /\ ReturnedErr => result = Err(Cardinality(Unresolved(input)))
    /\ (ReturnedOk /\ DistinctIds(input)) =>
          /\ Edges(result.forest) =
                {<<Unwrap(input[i].parent_id), input[i].id>> :
                    i \in DOMAIN input \ TopLevel}
          /\ RootIds(result.forest) = {input[i].id : i \in TopLevel}

\* A forest is returned whose roots are not in the order of their ids and
\* one of which has a child.
C13_Witness ==
    /\ ReturnedOk
    /\ Len(result.forest) >= 2
    /\ result.forest[1].task.id > result.forest[2].task.id
    /\ Edges(result.forest) # {}

\* The number of failed lookups at the end of the log, after the last
\* successful attach.
RECURSIVE TrailingMisses(_)
TrailingMisses(l) ==
    IF l = <<>> \/ l[Len(l)].op = "attach" THEN 0
    ELSE 1 + TrailingMisses(SubSeq(l, 1, Len(l) - 1))

\* C14: fails is the number of consecutive failed lookups since the last
\* successful attach, or since the start. An iteration whose lookup fails
\* adds exactly one to it, an iteration whose lookup succeeds sets it to
\* zero, and no other step changes it.
C14_FailsCountsConsecutiveMisses ==
    /\ [](pc # "start" => fails = TrailingMisses(log))
    /\ [][InLoop =>
            fails' = IF Vacant(tasks, ParentKey(input, Head(subtasks)))
                     THEN fails + 1 ELSE 0]_vars
    /\ [][(pc # "start" /\ ~InLoop) => fails' = fails]_vars

\* Two lookups have failed in a row after a successful attach.
C14_Witness ==
    /\ pc = "loop"
    /\ fails = 2
    /\ \E k \in DOMAIN log : log[k].op = "attach"

\* The next step pops a candidate whose parent_id has no entry in the table.
LookupFails == InLoop /\ Vacant(tasks, ParentKey(input, Head(subtasks)))

\* C15: a failed lookup changes nothing but the order of the queue and the
\* miss counter. The popped candidate goes to the end of the queue, the other
\* candidates keep their order, the queue keeps its length, and the table,
\* the subtasks, the parent markers and the owners of every builder stay as
\* they are.
C15_MissOnlyRequeues ==
    [][LookupFails =>
          /\ subtasks' = Append(Tail(subtasks), Head(subtasks))
          /\ Len(subtasks') = Len(subtasks)
          /\ fails' = fails + 1
          /\ UNCHANGED <<input, pc, tasks, parent, children, rc, result>>]_vars

\* The last lookup failed and put its candidate behind two others.
C15_Witness ==
    /\ pc = "loop"
    /\ log # <<>>
    /\ log[Len(log)].op = "miss"
    /\ Len(subtasks) = 3
    /\ subtasks[3] = log[Len(log)].node

\* The builders that the lookups logged so far have attached.
AttachedSoFar == {log[k].node : k \in {j \in DOMAIN log : log[j].op = "attach"}}

\* C16: for records with distinct ids, at every step of the loop each record
\* is in exactly one of the queue and the table, under its own id, so the
\* length of the queue and the size of the table add up to the number of
\* records. The table starts with exactly the parentless records; a record
\* enters the table only by a successful attach of the candidate at the front
\* of the queue, and no record leaves the table.
C16_QueueAndTablePartitionTheInput ==
    /\ []((pc # "start" /\ DistinctIds(input)) =>
            /\ \A n \in DOMAIN input :
                  Occurrences(subtasks, n)
                     + Cardinality({k \in DOMAIN tasks : tasks[k] = n}) = 1
            /\ \A k \in DOMAIN tasks : input[tasks[k]].id = k
            /\ Len(subtasks) + Cardinality(DOMAIN tasks) = Len(input)
            /\ log = <<>> => Entries(tasks) = TopLevel
            /\ Entries(tasks) = TopLevel \cup AttachedSoFar)
    /\ [][(pc # "start" /\ DistinctIds(input)) =>
            /\ Entries(tasks) \subseteq Entries(tasks')
            /\ Entries(tasks') # Entries(tasks) =>
                  /\ InLoop
                  /\ ~Vacant(tasks, ParentKey(input, Head(subtasks)))
                  /\ Entries(tasks') = Entries(tasks) \cup {Head(subtasks)}
                  /\ subtasks' = Tail(subtasks)]_vars

\* Of three records with distinct ids one is still in the queue after a
\* failed lookup, and one of the two in the table was attached.
C16_Witness ==
    /\ pc = "loop"
    /\ DistinctIds(input)
    /\ Len(input) = 3
    /\ Len(subtasks) = 1
    /\ fails = 1
    /\ Cardinality(DOMAIN tasks) = 2
    /\ AttachedSoFar # {}

\* The builders attached so far, in the order of their attaches.
AttachOrder ==
    LET attaches == SelectSeq(log, LAMBDA ev : ev.op = "attach")
    IN  [i \in DOMAIN attaches |-> attaches[i].node]

IsPrefix(s, t) == Len(s) <= Len(t) /\ SubSeq(t, 1, Len(s)) = s

\* The positions in the input of a sequence of builders are increasing.
InInputOrder(s) == \A i, j \in DOMAIN s : i < j => s[i] < s[j]

ChildIds(t) == [i \in DOMAIN t.subtasks |-> t.subtasks[i].task.id]

\* The ids of the records attached so far under id, in the order of attaches.
AttachedUnder(id) ==
    LET under == SelectSeq(AttachOrder, LAMBDA n : input[n].parent_id = Some(id))
    IN  [i \in DOMAIN under |-> input[under[i]].id]

\* Builder n was attached after a lookup for one of its children had failed.
AttachedAfterChildTried(n) ==
    \E i, j \in DOMAIN log :
        /\ i < j
        /\ log[i].op = "miss"
        /\ log[i].node \in Range(children[n])
        /\ log[j] = Attached(n)

\* C17: the children of a builder are in the order of their attaches: an attach
\* appends the candidate after the children already there and no step
\* reorders or removes them, and the children of every returned node are the
\* records attached under its id, in attach order. The children of a
\* parentless record are in input order; children that are not in input order
\* belong to a record that was attached after one of them was first tried.
C17_ChildrenInAttachOrder ==
    /\ [][\A n \in DOMAIN children :
             /\ IsPrefix(children[n], children'[n])
             /\ Len(children'[n]) <= Len(children[n]) + 1
             /\ children'[n] # children[n] =>
                   /\ InLoop
                   /\ children'[n] = Append(children[n], Head(subtasks))]_vars
    /\ [](pc # "start" =>
            \A n \in DOMAIN children :
               /\ children[n] =
                     SelectSeq(AttachOrder, LAMBDA m : m \in Range(children[n]))
               /\ n \in TopLevel => InInputOrder(children[n])
               /\ ~InInputOrder(children[n]) => AttachedAfterChildTried(n))
    /\ []((ReturnedOk /\ DistinctIds(input)) =>
            \A t \in Nodes(result.forest) : ChildIds(t) = AttachedUnder(t.task.id))

\* The tree returned for the late-parent batch: record 2 has its children in
\* the order 4, 3 of their attaches, the reverse of their order in the input.
C17_Witness ==
    /\ ReturnedOk
    /\ input = LateParent
    /\ log = <<Missed(1), Attached(3), Attached(4), Attached(1)>>
    /\ Len(result.forest) = 1
    /\ ChildIds(result.forest[1]) = <<2>>
    /\ ChildIds(result.forest[1].subtasks[1]) = <<4, 3>>

\* list has returned, or the run has ended.
ListReturned == lpc = "returned"

\* No choice that leads to a close or an edit call was made.
NothingToActOn ==
    \/ pc = "done" /\ result.kind # "ok"
    \/ chosen = None
    \/ option \in {"unset", "none", "error", "Quit"}
    \/ option = "Edit" /\ editOption \in {"unset", "none", "error", "Quit"}

\* C18: one run of list makes its calls in a fixed order and acts on at most
\* one task. The task fetch is the first call and the only fetch; from_tasks
\* is entered after it with the complete fetched batch, and a forest it
\* returns for distinct ids holds every fetched id once. At most one close or
\* edit call follows, after from_tasks returned a forest, only in
\* interactive mode and only for the id of the tree the user selected. When
\* from_tasks fails, no task or no option is selected, or Quit is chosen,
\* there is no close or edit call.
C18_FetchThenAtMostOneAction ==
    /\ [](/\ Len(calls) <= 2
          /\ calls # <<>> => calls[1] = TasksCall
          /\ pc # "uncalled" => calls # <<>> /\ input = fetched
          /\ (pc = "done" /\ result.kind = "ok" /\ DistinctIds(fetched)) =>
                IsReordering(ForestIds(result.forest),
                             [i \in DOMAIN fetched |-> fetched[i].id])
          /\ Len(calls) = 2 =>
                /\ interactive
                /\ pc = "done" /\ result.kind = "ok"
                /\ chosen # None
                /\ Unwrap(chosen) \in Range(result.forest)
                /\ \/ option = "Close"
                      /\ calls[2] = CloseCall(Unwrap(chosen).task.id)
                   \/ option = "Edit" /\ editOption \in EditFields
                      /\ calls[2] = EditCall(Unwrap(chosen).task.id, editOption)
          /\ NothingToActOn => Len(calls) <= 1)
    /\ [][/\ calls' # calls => \E c \in {TasksCall}
                                   \cup {CloseCall(id) : id \in 1..MaxId}
                                   \cup {EditCall(id, f) : id \in 1..MaxId, f \in EditFields} :
                                  calls' = Append(calls, c)
          /\ ListReturned => calls' = calls]_vars

\* An interactive run fetched two parentless tasks, the user picked the
\* second and edited its due date: one edit call for id 2 followed the fetch.
C18_Witness ==
    /\ ListReturned
    /\ interactive
    /\ fetched = <<Task(1, None), Task(2, None)>>
    /\ chosen = Some([task |-> Task(2, None), subtasks |-> <<>>])
    /\ calls = <<TasksCall, EditCall(2, "Due")>>
    /\ ret = "Ok"

====
